---- MODULE Spec2Model ----
(***************************************************************************)
(* arb-deploy (scripts/arb_deploy.py): one invocation of the command line   *)
(* tool after another, in a working directory and against a docker daemon  *)
(* whose contents earlier deployments have left behind.                     *)
(*                                                                          *)
(* The file system is the part of it the script reads and writes: the       *)
(* topology document ./docker-compose.yml, the validator state root and the *)
(* synthetic build context .tmp.  The docker daemon is the set of images    *)
(* and the containers matching 'arb-validator', one per node index.         *)
(* A path is the sequence of its components, "/" first when absolute.       *)
(***************************************************************************)
EXTENDS Integers, Sequences, FiniteSets, TLC

VARIABLES
    pc,           \* position of the running invocation in main/deploy
    args,         \* the parsed command line of the running invocation
    exitCode,     \* <<status>> once the process has exited, NoExit while running
    log,          \* commands and calls the invocation has issued, in order
    images,       \* docker images present, by name
    containers,   \* node index -> "none" | "running" | "stopped"
    composeFile,  \* contents of ./docker-compose.yml, NoDoc when absent
    statesExists, \* whether the validator state root is a directory
    stateDirs,    \* node directories under the state root
    tmpDir,       \* whether the build context .tmp exists
    gen,          \* generator harness: inputs and generated contents
    calls         \* cache harness: the bootstrap calls made, in order

vars == <<pc, args, exitCode, log, images, containers, composeFile,
          statesExists, stateDirs, tmpDir, gen, calls>>

(***************************************************************************)
(* Bounds                                                                   *)
(***************************************************************************)
\* largest n_validators of an invocation, and of an earlier deployment
MaxNodes == 2
\* largest n_validators handed to the generator alone
MaxGenNodes == 4
\* bootstrap calls made in a row by the cache harness
MaxCalls == 3

NodeArgs == 0..MaxNodes
NodeIds == 0..(MaxNodes - 1)

(***************************************************************************)
(* Constants of the script                                                  *)
(***************************************************************************)
DOCKER_COMPOSE_FILENAME == "docker-compose.yml"
AvmChoices == {"cpp", "go", "test"}
CacheNames == {"arb-avm-cpp", "arb-validator"}
ROOT_DIR == <<"/", "opt", "arbitrum">>
WorkDir == <<"/", "work">>

NoDoc == <<>>
NoArgs == [contract |-> <<>>, n_validators |-> 0, sudo |-> FALSE,
           build |-> FALSE, up |-> FALSE, avm |-> ""]
NoExit == <<>>
NoGen == [cwd |-> <<>>, cwd2 |-> <<>>, contract |-> <<>>, n |-> 0, avm |-> "",
          out |-> NoDoc, out2 |-> NoDoc]

Ev(cmd, arg, rc) == [cmd |-> cmd, arg |-> arg, rc |-> rc]

(***************************************************************************)
(* os.path                                                                  *)
(***************************************************************************)
\* a path handed on as it was given, the working directory not looked at
AbspathAsGiven(cwd, p) == p

Abspath(cwd, p) == IF Len(p) > 0 /\ p[1] = "/" THEN p ELSE cwd \o p

(***************************************************************************)
(* docker-compose template                                                  *)
(*                                                                          *)
(* A document is the sequence of its service blocks; a block holds the      *)
(* values the template substitutes and the lines that tell a coordinator    *)
(* block from a peer block.  The dockerhost service, the same in every      *)
(* document, is left out.                                                   *)
(***************************************************************************)
\* setup_states.VALIDATOR_STATES and VALIDATOR_STATE % i, joined
StatesPattern(i) == <<"validator-states", "validator" \o ToString(i)>>

compose_header(state_abspath, contract_abspath, cvalidator, dockerfile, avm) ==
    [ service    |-> "arb-validator-coordinator",
      state      |-> state_abspath,
      contract   |-> contract_abspath,
      image      |-> "arb-validator",
      context    |-> cvalidator,
      dockerfile |-> dockerfile,
      ID         |-> 0,
      WAIT_FOR   |-> "dockerhost:7546",
      AVM        |-> avm ]

compose_validator(validator_id, state_abspath, contract_abspath, avm) ==
    [ service    |-> "arb-validator" \o ToString(validator_id),
      state      |-> state_abspath,
      contract   |-> contract_abspath,
      image      |-> "arb-validator",
      context    |-> <<>>,
      dockerfile |-> "",
      ID         |-> validator_id,
      WAIT_FOR   |-> "arb-validator-coordinator:1236",
      AVM        |-> avm ]

\* the node indices below n
Below(n) == 0..(n - 1)

\* range(a, b) as the list Python iterates
Range(a, b) == [k \in 1..(IF b > a THEN b - a ELSE 0) |-> a + k - 1]

\* the range of peer ids off by one at the lower end
PeerIdsFromZero(n_validators) == Range(0, n_validators)

PeerIds(n_validators) == Range(1, n_validators)

\* contents, as deploy assembles it in the working directory cwd
contents(cwd, contract_name, n_validators, avm) ==
    LET contract == Abspath(cwd, contract_name)
        ids == PeerIds(n_validators)
    IN  << compose_header(Abspath(cwd, StatesPattern(0)), contract,
                          Abspath(cwd, ROOT_DIR \o <<"packages">>),
                          "arb-validator.Dockerfile", avm) >>
        \o [k \in 1..Len(ids) |->
              compose_validator(ids[k], Abspath(cwd, StatesPattern(ids[k])),
                                contract, avm)]

\* a coordinator block is the one service built from the Dockerfile; a peer
\* block is a service that waits for the coordinator
IsCoordinator(b) == b.service = "arb-validator-coordinator" /\ b.dockerfile # ""
IsPeer(b) == b.WAIT_FOR = "arb-validator-coordinator:1236"
\* node indices of the services a document declares
Services(doc) == IF doc = NoDoc THEN {} ELSE {doc[k].ID : k \in 1..Len(doc)}

(***************************************************************************)
(* The container runtime, as the commands of the script use it              *)
(***************************************************************************)
\* docker images -q name: the captured text, "" when no image has the name
DockerImagesQ(imgs, name) == IF name \in imgs THEN "id" ELSE ""

\* docker ps | grep -e 'arb-validator': the running containers that match
DockerPs(cs) == {i \in DOMAIN cs : cs[i] = "running"}
\* docker ps -a | grep -e 'arb-validator': running and stopped ones
DockerPsAll(cs) == {i \in DOMAIN cs : cs[i] # "none"}

\* docker kill $(docker ps | ...)
DockerKill(cs) == [i \in DOMAIN cs |-> IF i \in DockerPs(cs) THEN "stopped" ELSE cs[i]]
\* docker rm $(docker ps -a | ...): removes the stopped containers listed
DockerRm(cs) == [i \in DOMAIN cs |-> IF cs[i] = "stopped" THEN "none" ELSE cs[i]]

\* docker-compose -f doc down -t 0: stops and removes the containers of the
\* services the document declares
ComposeDown(doc, cs) == [i \in DOMAIN cs |-> IF i \in Services(doc) THEN "none" ELSE cs[i]]
\* docker-compose -f doc up: (re)creates and starts them
ComposeUp(doc, cs) == [i \in DOMAIN cs |-> IF i \in Services(doc) THEN "running" ELSE cs[i]]
\* the foreground session ends when the containers of the document have exited
ComposeUpExit(doc, cs) ==
    [i \in DOMAIN cs |-> IF i \in Services(doc) /\ cs[i] = "running" THEN "stopped" ELSE cs[i]]

(***************************************************************************)
(* deploy.bootstrap_build_cache                                             *)
(***************************************************************************)
\* the image query with its test turned round
CacheMissingInverted(imgs, name) == DockerImagesQ(imgs, name) # ""

CacheMissing(imgs, name) == DockerImagesQ(imgs, name) = ""

\* the call with .tmp removed after a build that succeeded only
bootstrap_build_cache_leaky(imgs, tmp, name, rc) ==
    IF CacheMissing(imgs, name)
    THEN [ images |-> IF rc = 0 THEN imgs \cup {name} ELSE imgs,
           tmp    |-> rc # 0,
           cmds   |-> << Ev("docker images -q", name, 0),
                         Ev("mkdir -p .tmp", "", 0),
                         Ev("echo > .tmp/Dockerfile", "", 0),
                         Ev("docker build -t", name, rc) >>
                      \o (IF rc = 0 THEN << Ev("rm -rf .tmp", "", 0) >> ELSE <<>>) ]
    ELSE [ images |-> imgs,
           tmp    |-> tmp,
           cmds   |-> << Ev("docker images -q", name, 0) >> ]

\* What one call does to the images and to .tmp, and the commands it issues;
\* rc is the exit status of docker build, should it run.  run() returns the
\* status and bootstrap_build_cache drops it.
bootstrap_build_cache(imgs, tmp, name, rc) ==
    IF CacheMissing(imgs, name)
    THEN [ images |-> IF rc = 0 THEN imgs \cup {name} ELSE imgs,
           tmp    |-> FALSE,
           cmds   |-> << Ev("docker images -q", name, 0),
                         Ev("mkdir -p .tmp", "", 0),
                         Ev("echo > .tmp/Dockerfile", "", 0),
                         Ev("docker build -t", name, rc),
                         Ev("rm -rf .tmp", "", 0) >> ]
    ELSE [ images |-> imgs,
           tmp    |-> tmp,
           cmds   |-> << Ev("docker images -q", name, 0) >> ]

(***************************************************************************)
(* halt_docker                                                              *)
(***************************************************************************)
\* kill and rm issued whatever docker ps printed
halt_docker_unguarded(doc, cs) ==
    LET down == IF doc # NoDoc THEN ComposeDown(doc, cs) ELSE cs
    IN  [ containers |-> DockerRm(DockerKill(down)),
          cmds |-> << Ev("halt_docker", "enter", 0) >>
                   \o (IF doc # NoDoc THEN << Ev("docker-compose down -t 0", "", 0) >> ELSE <<>>)
                   \o << Ev("docker ps", "", 0), Ev("docker kill", "", 0),
                         Ev("docker rm", "", 0), Ev("halt_docker", "return", 0) >> ]

\* halt_docker with the document brought down and nothing more
halt_docker_down_only(doc, cs) ==
    LET down == IF doc # NoDoc THEN ComposeDown(doc, cs) ELSE cs
    IN  [ containers |-> down,
          cmds |-> << Ev("halt_docker", "enter", 0) >>
                   \o (IF doc # NoDoc THEN << Ev("docker-compose down -t 0", "", 0) >> ELSE <<>>)
                   \o << Ev("halt_docker", "return", 0) >> ]

halt_docker(doc, cs) ==
    LET down == IF doc # NoDoc THEN ComposeDown(doc, cs) ELSE cs
        any  == DockerPs(down) # {}
    IN  [ containers |-> IF any THEN DockerRm(DockerKill(down)) ELSE down,
          cmds |-> << Ev("halt_docker", "enter", 0) >>
                   \o (IF doc # NoDoc THEN << Ev("docker-compose down -t 0", "", 0) >> ELSE <<>>)
                   \o << Ev("docker ps", "", 0) >>
                   \o (IF any THEN << Ev("docker kill", "", 0), Ev("docker rm", "", 0) >>
                              ELSE <<>>)
                   \o << Ev("halt_docker", "return", 0) >> ]

(***************************************************************************)
(* main: the command line                                                   *)
(***************************************************************************)
ContractArgs == {<<"c.ao">>}
\* --sudo only prefixes the commands run() executes
SudoArgs == {FALSE}
AvmArgs == {"cpp", "wasm"}
\* exit statuses of a docker build and of docker-compose build
BuildRcs == {0, 1, 2}

Terminal == {"rejected", "exited", "crashed", "done", "interrupted"}
\* the positions inside deploy
Running == {"cache1", "cache2", "halt", "write", "build", "nuke", "setup",
            "up", "upwait"}

\* a parser whose --build and --up are plain flags, in no exclusive group
ParseErrorNoGroup(build, up, avm) == avm \notin AvmChoices

\* parse_args() exits with status 2 on --build with --up and on an --avm
\* outside the choices
ParseError(build, up, avm) == (build /\ up) \/ avm \notin AvmChoices

main ==
    /\ pc \in {"start"} \cup Terminal
    /\ \E contract \in ContractArgs, n \in NodeArgs, sudo \in SudoArgs,
          build \in BOOLEAN, up \in BOOLEAN, avm \in AvmArgs :
         /\ args' = [contract |-> contract, n_validators |-> n, sudo |-> sudo,
                     build |-> build, up |-> up, avm |-> avm]
         /\ IF ParseError(build, up, avm)
            THEN pc' = "rejected" /\ exitCode' = <<2>>
            ELSE pc' = "cache1" /\ exitCode' = NoExit
    /\ log' = <<>>
    /\ UNCHANGED <<images, containers, composeFile, statesExists, stateDirs,
                   tmpDir, gen, calls>>

(***************************************************************************)
(* deploy                                                                   *)
(***************************************************************************)
\* bootstrap_build_cache(name), called at position at
Bootstrap(at, name, next) ==
    /\ pc = at
    /\ \E rc \in BuildRcs :
         LET r == bootstrap_build_cache(images, tmpDir, name, rc)
         IN  /\ images' = r.images
             /\ tmpDir' = r.tmp
             /\ log' = log \o r.cmds
    /\ pc' = next
    /\ UNCHANGED <<args, exitCode, containers, composeFile, statesExists,
                   stateDirs, gen, calls>>

BootstrapCpp == Bootstrap("cache1", "arb-avm-cpp", "cache2")

\* deploy calling halt_docker with the second cache not looked at
BootstrapValidatorSkipped ==
    /\ pc = "cache2"
    /\ pc' = "halt"
    /\ UNCHANGED <<args, exitCode, log, images, containers, composeFile,
                   statesExists, stateDirs, tmpDir, gen, calls>>

BootstrapValidator == Bootstrap("cache2", "arb-validator", "halt")

\* deploy going on to the document without stopping anything
HaltSkipped ==
    /\ pc = "halt"
    /\ pc' = "write"
    /\ UNCHANGED <<args, exitCode, log, images, containers, composeFile,
                   statesExists, stateDirs, tmpDir, gen, calls>>

Halt ==
    /\ pc = "halt"
    /\ LET r == halt_docker(composeFile, containers)
       IN  /\ containers' = r.containers
           /\ log' = log \o r.cmds
    /\ pc' = "write"
    /\ UNCHANGED <<args, exitCode, images, composeFile, statesExists,
                   stateDirs, tmpDir, gen, calls>>

\* the document written over the old one with the old one's further
\* service blocks kept
WriteComposeMerging ==
    /\ pc = "write"
    /\ LET new == contents(WorkDir, args.contract, args.n_validators, args.avm)
       IN  composeFile' = new \o SubSeq(composeFile, Len(new) + 1, Len(composeFile))
    /\ log' = Append(log, Ev("write", DOCKER_COMPOSE_FILENAME, 0))
    /\ pc' = "build"
    /\ UNCHANGED <<args, exitCode, images, containers, statesExists,
                   stateDirs, tmpDir, gen, calls>>

WriteCompose ==
    /\ pc = "write"
    /\ composeFile' = contents(WorkDir, args.contract, args.n_validators, args.avm)
    /\ log' = Append(log, Ev("write", DOCKER_COMPOSE_FILENAME, 0))
    /\ pc' = "build"
    /\ UNCHANGED <<args, exitCode, images, containers, statesExists,
                   stateDirs, tmpDir, gen, calls>>

\* the build test with its first operand lost
BuildWantedFlagOnly(build_flag, up_flag) == build_flag

BuildWanted(build_flag, up_flag) == ~up_flag \/ build_flag
UpWanted(build_flag, up_flag) == ~build_flag \/ up_flag

\* a failed build that deploy lets pass
BuildFailureIgnored(rc) == "nuke"

\* where deploy goes after docker-compose build returned rc
AfterBuild(rc) == IF rc # 0 THEN "exited" ELSE "nuke"

\* the status of the runtime handed on as the status of the process
BuildExitStatusOfRuntime(rc) == rc

\* exit(1): the status of the process after a build that returned rc # 0
BuildExitStatus(rc) == 1

Build ==
    /\ pc = "build"
    /\ IF BuildWanted(args.build, args.up)
       THEN \E rc \in BuildRcs :
              /\ log' = Append(log, Ev("docker-compose build", "", rc))
              /\ pc' = AfterBuild(rc)
              /\ exitCode' = IF AfterBuild(rc) = "exited" THEN <<BuildExitStatus(rc)>>
                                                          ELSE exitCode
              /\ images' = IF rc = 0 THEN images \cup {"arb-validator"} ELSE images
       ELSE /\ pc' = "nuke"
            /\ UNCHANGED <<log, exitCode, images>>
    /\ UNCHANGED <<args, containers, composeFile, statesExists, stateDirs,
                   tmpDir, gen, calls>>

\* the state root left in place
KeepStates(exists) == FALSE

\* os.path.isdir(VALIDATOR_STATES): whether deploy removes the tree
NukeWanted(exists) == exists

\* the state reset done only when the cluster is brought up
NukeUnlessBuildOnly ==
    /\ pc = "nuke"
    /\ IF args.build
       THEN /\ pc' = "up"
            /\ UNCHANGED <<statesExists, stateDirs, log>>
       ELSE /\ pc' = "setup"
            /\ IF NukeWanted(statesExists)
               THEN /\ statesExists' = FALSE
                    /\ stateDirs' = {}
                    /\ log' = Append(log, Ev("shutil.rmtree", "validator-states", 0))
               ELSE UNCHANGED <<statesExists, stateDirs, log>>
    /\ UNCHANGED <<args, exitCode, images, containers, composeFile, tmpDir,
                   gen, calls>>

Nuke ==
    /\ pc = "nuke"
    /\ IF NukeWanted(statesExists)
       THEN /\ statesExists' = FALSE
            /\ stateDirs' = {}
            /\ log' = Append(log, Ev("shutil.rmtree", "validator-states", 0))
       ELSE UNCHANGED <<statesExists, stateDirs, log>>
    /\ pc' = "setup"
    /\ UNCHANGED <<args, exitCode, images, containers, composeFile, tmpDir,
                   gen, calls>>

\* setup_states.setup_validator_states_ethbridge(contract, n, sudo): one
\* directory per node index under the state root when it returns (made = n);
\* when it raises, nothing at all (made < 0) or the state root with the
\* first made < n directories
setup_validator_states_ethbridge(exists, dirs, n, made) ==
    IF made < 0
    THEN [exists |-> exists, dirs |-> dirs]
    ELSE [exists |-> TRUE, dirs |-> dirs \cup Below(made)]

\* an exception of the state bootstrap caught and dropped
SetupFailureSwallowed(rc) == "up"

\* where deploy goes after the state bootstrap: on to up when it returned,
\* out of deploy and main with the exception when it raised
AfterSetup(rc) == IF rc # 0 THEN "crashed" ELSE "up"

SetupStates ==
    /\ pc = "setup"
    /\ \/ LET r == setup_validator_states_ethbridge(statesExists, stateDirs,
                       args.n_validators, args.n_validators)
          IN  /\ statesExists' = TRUE
              /\ stateDirs' = r.dirs
              /\ log' = Append(log, Ev("setup_validator_states_ethbridge", "", 0))
              /\ pc' = AfterSetup(0)
              /\ UNCHANGED exitCode
       \/ /\ \E made \in (0 - 1)..(args.n_validators - 1) :
               LET r == setup_validator_states_ethbridge(statesExists, stateDirs,
                            args.n_validators, made)
               IN  /\ statesExists' = r.exists
                   /\ stateDirs' = r.dirs
          /\ log' = Append(log, Ev("setup_validator_states_ethbridge", "", 1))
          /\ pc' = AfterSetup(1)
          /\ exitCode' = IF AfterSetup(1) = "crashed" THEN <<1>> ELSE exitCode
    /\ UNCHANGED <<args, images, containers, composeFile, tmpDir, gen, calls>>

Up ==
    /\ pc = "up"
    /\ IF UpWanted(args.build, args.up)
       THEN /\ containers' = ComposeUp(composeFile, containers)
            /\ log' = Append(log, Ev("docker-compose up", "", 0))
            /\ pc' = "upwait"
            /\ UNCHANGED exitCode
       ELSE /\ pc' = "done"
            /\ exitCode' = <<0>>
            /\ UNCHANGED <<containers, log>>
    /\ UNCHANGED <<args, images, composeFile, statesExists, stateDirs, tmpDir,
                   gen, calls>>

\* the blocking docker-compose up returns and deploy, then main, return
UpReturn ==
    /\ pc = "upwait"
    /\ containers' = ComposeUpExit(composeFile, containers)
    /\ pc' = "done"
    /\ exitCode' = <<0>>
    /\ UNCHANGED <<args, log, images, composeFile, statesExists, stateDirs,
                   tmpDir, gen, calls>>

\* a KeyboardInterrupt caught and dropped
InterruptSwallowed ==
    /\ pc \in Running
    /\ pc' = "interrupted"
    /\ exitCode' = <<0>>
    /\ UNCHANGED <<args, log, images, containers, composeFile, statesExists,
                   stateDirs, tmpDir, gen, calls>>

\* KeyboardInterrupt while deploy is at one of its steps: it leaves deploy
\* and main, and the handler ends the process with sys.exit(1).  The step
\* interrupted has not taken effect; the containers of a foreground session
\* are stopped with it or left running.
Interrupt ==
    /\ pc \in Running
    /\ pc' = "interrupted"
    /\ exitCode' = <<1>>
    /\ \E stopped \in BOOLEAN :
         containers' = IF pc = "upwait" /\ stopped
                       THEN ComposeUpExit(composeFile, containers)
                       ELSE containers
    /\ UNCHANGED <<args, log, images, composeFile, statesExists, stateDirs,
                   tmpDir, gen, calls>>

(***************************************************************************)
(* The tool, invoked again and again                                        *)
(***************************************************************************)
\* what earlier deployments, from this or another working directory, can
\* have left: images, containers, a document, a state root
EarlierDocs == {NoDoc} \cup {contents(WorkDir, c, n, "cpp") : c \in ContractArgs, n \in 1..MaxNodes}

Init ==
    /\ pc = "start"
    /\ args = NoArgs
    /\ exitCode = NoExit
    /\ log = <<>>
    /\ images \in SUBSET CacheNames
    /\ containers \in [NodeIds -> {"none", "running", "stopped"}]
    /\ composeFile \in EarlierDocs
    /\ \E k \in 0..(MaxNodes + 1) :
          /\ statesExists = (k > 0)
          /\ stateDirs = Below(k - 1)
    /\ tmpDir = FALSE
    /\ gen = NoGen
    /\ calls = <<>>

Next ==
    \/ main
    \/ BootstrapCpp
    \/ BootstrapValidator
    \/ Halt
    \/ WriteCompose
    \/ Build
    \/ Nuke
    \/ SetupStates
    \/ Up
    \/ UpReturn
    \/ Interrupt

Spec == Init /\ [][Next]_vars

(***************************************************************************)
(* The generator alone: contents for one request, generated and written     *)
(* twice, in a working directory each time                                  *)
(***************************************************************************)
GenCwds == {WorkDir, <<"/", "home", "user">>}
GenContracts == {<<"c.ao">>, <<"/", "srv", "c.ao">>}

InitGen ==
    /\ pc = "gen"
    /\ args = NoArgs
    /\ exitCode = NoExit
    /\ log = <<>>
    /\ images = {}
    /\ containers = [i \in NodeIds |-> "none"]
    /\ composeFile = NoDoc
    /\ statesExists = FALSE
    /\ stateDirs = {}
    /\ tmpDir = FALSE
    /\ gen \in [cwd : GenCwds, cwd2 : GenCwds, contract : GenContracts,
                n : 0..MaxGenNodes, avm : AvmChoices, out : {NoDoc},
                out2 : {NoDoc}]
    /\ calls = <<>>

Generate ==
    /\ pc = "gen"
    /\ gen' = [gen EXCEPT !.out = contents(gen.cwd, gen.contract, gen.n, gen.avm)]
    /\ composeFile' = gen'.out
    /\ pc' = "generated"
    /\ UNCHANGED <<args, exitCode, log, images, containers,
                   statesExists, stateDirs, tmpDir, calls>>

\* the same request once more, the document of the first time on disk
GenerateAgain ==
    /\ pc = "generated"
    /\ gen' = [gen EXCEPT !.out2 = contents(gen.cwd2, gen.contract, gen.n, gen.avm)]
    /\ composeFile' = gen'.out2
    /\ pc' = "regenerated"
    /\ UNCHANGED <<args, exitCode, log, images, containers,
                   statesExists, stateDirs, tmpDir, calls>>

NextGen ==
    \/ Generate
    \/ GenerateAgain

SpecGen == InitGen /\ [][NextGen]_vars

(***************************************************************************)
(* The cache bootstrap alone: calls made one after the other                *)
(***************************************************************************)
InitBoot ==
    /\ pc = "boot"
    /\ args = NoArgs
    /\ exitCode = NoExit
    /\ log = <<>>
    /\ images \in SUBSET CacheNames
    /\ containers = [i \in NodeIds |-> "none"]
    /\ composeFile = NoDoc
    /\ statesExists = FALSE
    /\ stateDirs = {}
    /\ tmpDir \in BOOLEAN
    /\ gen = NoGen
    /\ calls = <<>>

BootCall ==
    /\ pc = "boot"
    /\ Len(calls) < MaxCalls
    /\ \E name \in CacheNames, rc \in BuildRcs :
         LET r == bootstrap_build_cache(images, tmpDir, name, rc)
         IN  /\ images' = r.images
             /\ tmpDir' = r.tmp
             /\ log' = log \o r.cmds
             /\ calls' = Append(calls, [name |-> name, before |-> images,
                                        after |-> r.images, tmp |-> r.tmp,
                                        cmds |-> r.cmds])
    /\ UNCHANGED <<pc, args, exitCode, containers, composeFile, statesExists,
                   stateDirs, gen>>

NextBoot == BootCall

SpecBoot == InitBoot /\ [][NextBoot]_vars

(***************************************************************************)
(* Reading the log                                                          *)
(***************************************************************************)
Where(l, cmd) == {k \in 1..Len(l) : l[k].cmd = cmd}
Issued(cmd) == Where(log, cmd) # {}
HaltReturns == {k \in 1..Len(log) : log[k] = Ev("halt_docker", "return", 0)}
SetupReturns == {k \in 1..Len(log) : log[k] = Ev("setup_validator_states_ethbridge", "", 0)}
ResetSteps == Where(log, "shutil.rmtree") \cup Where(log, "setup_validator_states_ethbridge")
\* the commands that change the docker daemon or the file system
Mutating == {"docker-compose down -t 0", "docker kill", "docker rm",
             "mkdir -p .tmp", "echo > .tmp/Dockerfile", "docker build -t",
             "rm -rf .tmp", "write", "docker-compose build", "shutil.rmtree",
             "setup_validator_states_ethbridge", "docker-compose up"}
AtMostOneFlag == ~(args.build /\ args.up)
PastBuild == {"nuke", "setup", "up", "upwait", "done", "exited", "crashed"}

(***************************************************************************)
(* Claims                                                                   *)
(***************************************************************************)

\* C1: in every deploy, whatever the flags, the state reset (rmtree of the
\* state root, call of the state bootstrap) begins only after halt_docker has
\* returned, and docker-compose up begins only after the state bootstrap has
\* returned.
C1_ResetAfterHaltUpAfterReset ==
    /\ \A k \in ResetSteps : \E j \in HaltReturns : j < k
    /\ \A k \in Where(log, "docker-compose up") : \E j \in SetupReturns : j < k
    /\ pc \in {"nuke", "setup"} => HaltReturns # {}
    /\ pc = "up" => SetupReturns # {}

C1_Witness ==
    /\ pc = "upwait"
    /\ Issued("shutil.rmtree")
    /\ Issued("docker-compose up")
    /\ Issued("docker kill")

\* C2: when docker-compose build returns a non-zero status deploy stops
\* there: it is the last thing the invocation does, the process has exited,
\* no rmtree, state bootstrap or up follows, and the document just written is
\* the one on disk.
C2_BuildFailureAborts ==
    \A k \in Where(log, "docker-compose build") :
        log[k].rc # 0 =>
            /\ k = Len(log)
            /\ pc = "exited"
            /\ exitCode # NoExit /\ exitCode # <<0>>
            /\ ~Issued("shutil.rmtree")
            /\ ~Issued("setup_validator_states_ethbridge")
            /\ ~Issued("docker-compose up")
            /\ composeFile = contents(WorkDir, args.contract, args.n_validators, args.avm)

C2_Witness ==
    /\ pc = "exited"
    /\ log[Len(log)] = Ev("docker-compose build", "", 2)
    /\ statesExists /\ stateDirs = {0, 1}
    /\ args.n_validators = 1
    /\ composeFile = contents(WorkDir, args.contract, 1, args.avm)

\* C3: with at most one of --build/--up given, docker-compose build is run
\* iff --up is absent, and docker-compose up is run iff --build is absent and
\* deploy was not aborted before; with neither flag build runs and then up,
\* with --build build runs and up never does.
C3_PhasesByFlags ==
    (pc \notin {"start", "rejected"} /\ AtMostOneFlag) =>
        /\ Issued("docker-compose build") => ~args.up
        /\ pc \in PastBuild => (Issued("docker-compose build") <=> ~args.up)
        /\ Issued("docker-compose up") => ~args.build /\ pc \notin {"exited", "crashed"}
        /\ pc \in {"upwait", "done"} => (Issued("docker-compose up") <=> ~args.build)
        /\ (~args.build /\ ~args.up /\ pc \in {"upwait", "done"}) =>
              \E b \in Where(log, "docker-compose build") :
                \E u \in Where(log, "docker-compose up") : b < u
        /\ (args.build /\ pc \in PastBuild) =>
              Issued("docker-compose build") /\ ~Issued("docker-compose up")

C3_Witness ==
    /\ pc = "done"
    /\ args.build /\ ~args.up
    /\ Issued("docker-compose build")
    /\ ~Issued("docker-compose up")
    /\ statesExists

\* C4: for every n_validators >= 1 the generated document holds exactly one
\* coordinator block, with ID 0, followed by n_validators - 1 peer blocks
\* whose IDs are 1, 2, ..., n_validators - 1 in this order; for
\* n_validators = 1 it is the coordinator block alone.
C4_OneCoordinatorAscendingPeers ==
    (pc = "generated" /\ gen.n >= 1) =>
        LET doc == gen.out
            coord == {k \in 1..Len(doc) : IsCoordinator(doc[k])}
            peers == {k \in 1..Len(doc) : IsPeer(doc[k])}
        IN  /\ coord = {1}
            /\ doc[1].ID = 0
            /\ Cardinality(peers) = gen.n - 1
            /\ peers = 2..gen.n
            /\ \A k \in peers : doc[k].ID = k - 1
            /\ {doc[k].ID : k \in peers} = 1..(gen.n - 1)
            /\ \A k \in peers : \A j \in peers : k < j => doc[k].ID < doc[j].ID
            /\ gen.n = 1 => Len(doc) = 1

C4_Witness ==
    /\ pc = "generated"
    /\ gen.n = 3
    /\ Len(gen.out) = 3
    /\ gen.out[2].ID = 1 /\ gen.out[3].ID = 2

\* C5: once halt_docker has returned, no container matching
\* 'arb-validator' is left, running or stopped, whatever containers there
\* were and whether or not ./docker-compose.yml existed.
C5_HaltLeavesNoContainer ==
    pc = "write" => DockerPsAll(containers) = {}

\* C6: with no ./docker-compose.yml and no matching container, halt_docker
\* issues no command that changes anything (no down, no kill, no rm), returns
\* normally, and leaves the containers, the images and the files as they were.
C6_HaltNoOp ==
    [][ (pc = "halt" /\ pc' # "interrupted"
           /\ composeFile = NoDoc /\ DockerPsAll(containers) = {}) =>
          /\ pc' = "write"
          /\ exitCode' = NoExit
          /\ containers' = containers
          /\ images' = images
          /\ composeFile' = composeFile
          /\ statesExists' = statesExists
          /\ stateDirs' = stateDirs
          /\ tmpDir' = tmpDir
          /\ Len(log') > Len(log)
          /\ \A k \in (Len(log) + 1)..Len(log') : log'[k].cmd \notin Mutating ]_vars

C6_Witness ==
    /\ pc = "write"
    /\ composeFile = NoDoc
    /\ DockerPsAll(containers) = {}
    /\ log[Len(log)] = Ev("halt_docker", "return", 0)
    /\ Issued("docker ps")
    /\ ~Issued("docker-compose down -t 0")
    /\ ~Issued("docker kill")

\* C7: whenever deploy calls the state bootstrap the state root does not
\* exist, whatever it held before, and once the bootstrap has returned the
\* state root holds exactly the node directories 0..n_validators-1.
C7_StateRootFresh ==
    /\ pc = "setup" => ~statesExists /\ stateDirs = {}
    /\ pc \in {"up", "upwait", "done"} =>
          statesExists /\ stateDirs = Below(args.n_validators)

C7_Witness ==
    /\ pc = "done"
    /\ Issued("shutil.rmtree")
    /\ args.n_validators = 1
    /\ stateDirs = {0}

\* The bootstrap calls of the harness, two by two
Builds(c) == Cardinality(Where(c.cmds, "docker build -t"))
GoodBuilds(c) == Cardinality({k \in Where(c.cmds, "docker build -t") : c.cmds[k].rc = 0})
\* calls i and j are two calls in a row for the same name
InARow(i, j) ==
    /\ i < j
    /\ calls[i].name = calls[j].name
    /\ \A m \in (i + 1)..(j - 1) : calls[m].name # calls[i].name
Pairs == {p \in (1..Len(calls)) \X (1..Len(calls)) : InARow(p[1], p[2])}

\* C8: two bootstrap calls in a row for a name run at most one successful
\* build between them, and at most one build at all unless the build of the
\* first call failed; a call that finds the image present runs no build.
C8_BootstrapIdempotent ==
    \A p \in Pairs :
        LET a == calls[p[1]]
            b == calls[p[2]]
        IN  /\ GoodBuilds(a) + GoodBuilds(b) <= 1
            /\ (Builds(a) = GoodBuilds(a)) => Builds(a) + Builds(b) <= 1
            /\ b.name \in b.before => Builds(b) = 0

C8_Witness ==
    \E p \in Pairs :
        /\ p[2] = p[1] + 1
        /\ Builds(calls[p[1]]) = 1
        /\ GoodBuilds(calls[p[1]]) = 1
        /\ Builds(calls[p[2]]) = 0

\* C8 as stated: two bootstrap calls in a row for a name run at most one
\* build between them, and none in the second when the image is present.
C8_AtMostOneBuild ==
    \A p \in Pairs :
        /\ Builds(calls[p[1]]) + Builds(calls[p[2]]) <= 1
        /\ calls[p[2]].name \in calls[p[2]].before => Builds(calls[p[2]]) = 0

\* C9: after a docker build of a cache image has failed, deploy does nothing
\* more than remove .tmp: no halt, no document, no state reset, no build, no
\* up.
C9_CacheBuildFailureAborts ==
    \A k \in Where(log, "docker build -t") :
        log[k].rc # 0 =>
            /\ \A j \in (k + 1)..Len(log) : log[j].cmd = "rm -rf .tmp"
            /\ pc \notin {"halt", "write", "build", "nuke", "setup", "up", "upwait", "done"}

\* C10: a command line with both --build and --up is rejected by the parser:
\* the step that takes it in ends the process with a non-zero status, issues
\* no command and changes neither the docker daemon nor the files, and no
\* step of deploy ever runs under it.
C10_BothFlagsRejected ==
    [][ (args'.build /\ args'.up) =>
          /\ pc' = "rejected"
          /\ exitCode' # NoExit /\ exitCode' # <<0>>
          /\ log' = <<>>
          /\ UNCHANGED <<images, containers, composeFile, statesExists,
                         stateDirs, tmpDir>> ]_vars

C10_Witness ==
    /\ pc = "rejected"
    /\ args.build /\ args.up
    /\ args.avm \in AvmChoices
    /\ log = <<>>

\* C11: a command line with n_validators < 1 is rejected before anything
\* happens: the process ends at the parser, no command is issued, no
\* document is written, no container halted, no state directory deleted.
C11_NodeCountBelowOneRejected ==
    (pc # "start" /\ args.n_validators < 1) =>
        /\ pc = "rejected"
        /\ log = <<>>

\* C12 as stated: when docker-compose build returns a non-zero status e, the
\* process ends with status e.
C12_ExitStatusOfRuntime ==
    pc = "exited" => exitCode = <<log[Len(log)].rc>>

\* C12: when docker-compose build returns a non-zero status, whichever it
\* is, the process ends with status 1.
C12_ExitStatusOne ==
    \A k \in Where(log, "docker-compose build") :
        log[k].rc # 0 => pc = "exited" /\ exitCode = <<1>>

C12_Witness ==
    /\ pc = "exited"
    /\ log[Len(log)] = Ev("docker-compose build", "", 2)
    /\ exitCode = <<1>>

\* C13: when the state bootstrap raises, deploy ends there as a failure of
\* the process: up is not run, the state root deploy removed before the call
\* is not put back (what is under it is what the failed call made), and
\* nothing more happens in that invocation.
C13_StateBootstrapFailurePropagates ==
    [][ /\ (pc = "setup" /\ Len(log') > Len(log) /\ log'[Len(log')].rc # 0) =>
              /\ pc' = "crashed"
              /\ exitCode' = <<1>>
              /\ ~statesExists
              /\ stateDirs' \subseteq Below(args.n_validators - 1)
              /\ Where(log', "docker-compose up") = {}
        /\ pc = "crashed" =>
              /\ log' = <<>>
              /\ UNCHANGED <<statesExists, stateDirs, containers, composeFile>> ]_vars

C13_Witness ==
    /\ pc = "crashed"
    /\ Issued("shutil.rmtree")
    /\ log[Len(log)] = Ev("setup_validator_states_ethbridge", "", 1)
    /\ ~statesExists
    /\ args.n_validators = 2
    /\ ~Issued("docker-compose up")

\* C14: in every deploy that gets past the build step, with --build, with
\* --up and with neither, the state reset runs exactly once: one call of the
\* state bootstrap, preceded by at most one rmtree, which is there whenever
\* the state root existed.
C14_StateResetOnce ==
    /\ pc \in {"up", "upwait", "done", "crashed"} =>
          /\ Cardinality(Where(log, "setup_validator_states_ethbridge")) = 1
          /\ Cardinality(Where(log, "shutil.rmtree")) <= 1
          /\ \A r \in Where(log, "shutil.rmtree") :
                \A c \in Where(log, "setup_validator_states_ethbridge") : r < c
    /\ pc = "setup" =>
          /\ ~statesExists
          /\ Where(log, "setup_validator_states_ethbridge") = {}
    /\ pc = "nuke" => ~Issued("shutil.rmtree")
    /\ pc = "done" => SetupReturns # {}

C14_Witness ==
    /\ pc = "done"
    /\ args.build /\ ~args.up
    /\ Issued("shutil.rmtree")
    /\ SetupReturns # {}
    /\ ~Issued("docker-compose up")

\* C15: in every deploy both cache bootstraps have been gone through before
\* halt_docker is entered, halt_docker is always called and has returned
\* before the document is written, and so docker-compose down is never run on
\* the document this deploy writes.
C15_CachesThenHaltThenWrite ==
    /\ \A h \in Where(log, "halt_docker") :
          \A name \in CacheNames :
             \E q \in Where(log, "docker images -q") : q < h /\ log[q].arg = name
    /\ \A w \in Where(log, "write") : \E h \in HaltReturns : h < w
    /\ \A w \in Where(log, "write") :
          \A d \in Where(log, "docker-compose down -t 0") : d < w
    /\ pc \in {"write", "build"} \cup PastBuild => HaltReturns # {}
    /\ pc = "halt" => Where(log, "write") = {}

C15_Witness ==
    /\ pc = "build"
    /\ Issued("docker build -t")
    /\ Issued("docker-compose down -t 0")
    /\ Issued("write")
    /\ Len(composeFile) = 2

\* C16: the document changes only at the write step of a deploy, and that
\* step sets it to the contents generated from the command line of that
\* deploy, whatever the document was before; so after any number of deploys
\* the document is the one of the last deploy that got to the write step.
C16_DocumentRegenerated ==
    [][ /\ composeFile' # composeFile => pc = "write" /\ pc' = "build"
        /\ (pc = "write" /\ pc' = "build") =>
              composeFile' = contents(WorkDir, args.contract, args.n_validators, args.avm) ]_vars

C16_Witness ==
    /\ pc = "build"
    /\ Issued("docker-compose down -t 0")
    /\ args.n_validators = 1
    /\ composeFile = contents(WorkDir, args.contract, 1, args.avm)
    /\ DockerPsAll(containers) # {}

\* C18: a KeyboardInterrupt at any step of deploy (cache bootstraps, halt,
\* document, build, state reset, up before and while it blocks) ends the
\* process with status 1, and no step of deploy runs after it.
C18_InterruptExitsOne ==
    [][ /\ (pc \in Running /\ pc' = "interrupted") =>
              /\ exitCode' = <<1>>
              /\ log' = log
        /\ pc = "interrupted" =>
              /\ exitCode = <<1>>
              /\ pc' \in {"cache1", "rejected"}
              /\ log' = <<>> ]_vars

C18_Witness ==
    /\ pc = "interrupted"
    /\ Issued("docker-compose up")
    /\ DockerPs(containers) # {}
    /\ exitCode = <<1>>

\* C19: when deploy removes the state root no container matching
\* 'arb-validator' is running, whatever containers there were and whatever
\* the flags.
C19_NoContainerRunningAtRmtree ==
    /\ pc \in {"write", "build", "nuke", "setup"} => DockerPs(containers) = {}
    /\ pc = "up" => DockerPs(containers) = {}

C19_Witness ==
    /\ pc = "setup"
    /\ Issued("shutil.rmtree")
    /\ Issued("docker kill")
    /\ DockerPs(containers) = {}
    /\ DockerPsAll(containers) = {}

C20_OneBootstrapCall ==
    \A i \in 1..Len(calls) :
        LET c == calls[i]
            b == Where(c.cmds, "docker build -t")
        IN  /\ c.name \in c.before =>
                  /\ b = {}
                  /\ Where(c.cmds, "mkdir -p .tmp") = {}
                  /\ Where(c.cmds, "echo > .tmp/Dockerfile") = {}
                  /\ c.after = c.before
            /\ c.name \notin c.before =>
                  /\ Cardinality(b) = 1
                  /\ \A k \in b :
                        /\ c.cmds[k].arg = c.name
                        /\ \E m \in Where(c.cmds, "mkdir -p .tmp") : m < k
                        /\ \E e \in Where(c.cmds, "echo > .tmp/Dockerfile") : e < k
                        /\ \E r \in Where(c.cmds, "rm -rf .tmp") : k < r
                  /\ ~c.tmp
                  /\ i = Len(calls) => ~tmpDir

C20_Witness ==
    /\ Len(calls) = 2
    /\ calls[1].name \notin calls[1].before
    /\ \E k \in Where(calls[1].cmds, "docker build -t") : calls[1].cmds[k].rc # 0
    /\ ~calls[1].tmp
    /\ calls[2].name \in calls[2].before
    /\ Builds(calls[2]) = 0

====
